---- MODULE Spec2Model ----
(***************************************************************************)
(* Model of Palette (src/src/shape.py): a wrapper of a Python list, the    *)
(* block look-up table `_blut`, whose entries are blocks or None (a gap).  *)
(*                                                                         *)
(* Blocks are modelled as small positive integers compared by value, as    *)
(* gdpc's Block dataclass compares; None is 0.  Python indexes are         *)
(* 0-based and may be negative; the sequence `blut` is 1-based, and the    *)
(* helpers At/SetAt/ListIndex convert as the list operations do.           *)
(*                                                                         *)
(* Besides the program state (blut, keep_small) the model records the      *)
(* last call, the list before it and the value it returned, so that the    *)
(* contract of one call is a state predicate.  `handle` holds the pairs    *)
(* <<block, index>> a caller got back from add_block and still holds:      *)
(* a pair is kept across later add_block calls with other blocks and       *)
(* dropped by every other mutating call.                                   *)
(***************************************************************************)
EXTENDS Integers, Sequences, FiniteSets

VARIABLES blut, keep_small, call, pre, ret, handle

vars == <<blut, keep_small, call, pre, ret, handle>>

\* ---- bounds ----
NumBlocks == 3
MaxLen == 4

\* ---- values ----
None == 0
EMPTY_BLOCK == 1
Blocks == 1..NumBlocks
Values == Blocks \cup {None}

\* ---- what a call hands back ----
RetNone == [kind |-> "none", val |-> 0]
RetInt(i) == [kind |-> "int", val |-> i]
RetRaise == [kind |-> "raise", val |-> 0]

\* ---- Python list primitives on the 1-based sequence ----
Has(s, v) == \E p \in 1..Len(s) : s[p] = v

\* list.index(v): the 0-based position of the first occurrence (caller checks Has)
ListIndex(s, v) == (CHOOSE p \in 1..Len(s) : s[p] = v /\ \A q \in 1..(p - 1) : s[q] # v) - 1

\* list.count(v)
ListCount(s, v) == Cardinality({p \in 1..Len(s) : s[p] = v})

\* a Python index (negative counts from the end) as a 0-based position
Norm(s, i) == IF i < 0 THEN i + Len(s) ELSE i

InRange(s, i) == Norm(s, i) >= 0 /\ Norm(s, i) < Len(s)

At(s, i) == s[Norm(s, i) + 1]

SetAt(s, i, v) == [s EXCEPT ![Norm(s, i) + 1] = v]

\* del list[i]: the later entries shift left
DelAt(s, i) == [p \in 1..(Len(s) - 1) |-> IF p < Norm(s, i) + 1 THEN s[p] ELSE s[p + 1]]

NoDuplicates(s) == \A p, q \in 1..Len(s) : (p # q /\ s[p] # None) => s[p] # s[q]

\* ---- Palette.__getitem__ ----
GetItem(s, index) == At(s, index)

\* ---- Palette.add_block ----
AddBlockFillsLastGap(s, block) ==
    IF block = None THEN [blut |-> s, ret |-> RetNone]
    ELSE IF ~Has(s, block) THEN
        IF Has(s, None) THEN
            LET index == (CHOOSE p \in 1..Len(s) : s[p] = None /\ \A q \in (p + 1)..Len(s) : s[q] # None) - 1
            IN  [blut |-> SetAt(s, index, block), ret |-> RetInt(index)]
        ELSE [blut |-> Append(s, block), ret |-> RetInt(-1)]
    ELSE [blut |-> s, ret |-> RetInt(ListIndex(s, block))]

AddBlock(s, block) ==
    IF block = None THEN [blut |-> s, ret |-> RetNone]
    ELSE IF ~Has(s, block) THEN
        IF Has(s, None) THEN
            LET index == ListIndex(s, None)
            IN  [blut |-> SetAt(s, index, block), ret |-> RetInt(index)]
        ELSE [blut |-> Append(s, block), ret |-> RetInt(-1)]
    ELSE [blut |-> s, ret |-> RetInt(ListIndex(s, block))]

\* ---- Palette.replace_block ----
ReplaceBlockOverwrites(s, current, replacement) ==
    IF Has(s, current) THEN
        LET old_index == ListIndex(s, current)
        IN  [blut |-> SetAt(s, old_index, replacement),
             ret |-> IF replacement = None THEN RetNone ELSE RetInt(old_index)]
    ELSE AddBlock(s, replacement)

ReplaceBlockRaises(s, current, replacement) ==
    IF Has(s, current) THEN
        LET old_index == ListIndex(s, current)
        IN  IF Has(s, replacement) THEN
                [blut |-> SetAt(s, old_index, None), ret |-> RetInt(ListIndex(s, replacement))]
            ELSE
                [blut |-> SetAt(s, old_index, replacement),
                 ret |-> IF replacement = None THEN RetNone ELSE RetInt(old_index)]
    ELSE [blut |-> s, ret |-> RetRaise]

ReplaceBlock(s, current, replacement) ==
    IF Has(s, current) THEN
        LET old_index == ListIndex(s, current)
        IN  IF Has(s, replacement) THEN
                \* replacement Block already existed in Palette
                [blut |-> SetAt(s, old_index, None), ret |-> RetInt(ListIndex(s, replacement))]
            ELSE
                \* replacement Block does not yet exist in Palette
                [blut |-> SetAt(s, old_index, replacement),
                 ret |-> IF replacement = None THEN RetNone ELSE RetInt(old_index)]
    ELSE AddBlock(s, replacement)

\* ---- Palette.remove_block ----
RemoveBlockDeletes(s, block) ==
    IF Has(s, block) THEN [blut |-> DelAt(s, ListIndex(s, block)), ret |-> RetNone]
    ELSE [blut |-> s, ret |-> RetNone]

RemoveBlock(s, block) == ReplaceBlock(s, block, None)

\* ---- Palette.count ----
Count(s, block, force_count) ==
    IF block # None /\ ~force_count THEN 1 ELSE ListCount(s, block)

\* ---- Palette.__delitem__ ----
DelItem(s, small, index) ==
    IF ~InRange(s, index) THEN [blut |-> s, ret |-> RetRaise]
    ELSE IF small THEN [blut |-> DelAt(s, index), ret |-> RetNone]
    ELSE [blut |-> SetAt(s, index, None), ret |-> RetNone]

\* ---- Palette.__setitem__ ----
\* `index` is rebound to the position of an existing `value` before the store
SetItem(s, small, index, value) ==
    LET found == value # None /\ Has(s, value)
        index2 == IF found THEN ListIndex(s, value) ELSE index
        s1 == IF found THEN DelItem(s, small, index2).blut ELSE s
    IN  IF InRange(s1, index2) THEN [blut |-> SetAt(s1, index2, value), ret |-> RetNone]
        ELSE [blut |-> s1, ret |-> RetRaise]

\* ---- Palette.append ----
PyAppend(s, small, block, force) ==
    LET s1 == IF Has(s, block) /\ force THEN DelItem(s, small, ListIndex(s, block)).blut ELSE s
    IN  [blut |-> Append(s1, block), ret |-> RetNone]

\* ---- states ----
Lists == UNION {[1..n -> Values] : n \in 0..MaxLen}

NoCall == [op |-> "init", a |-> 0, b |-> 0, flag |-> FALSE]

\* Palette.__init__: any duplicate-free list (<<EMPTY_BLOCK>> by default),
\* either setting of keep_small
Init ==
    /\ blut \in {s \in Lists : NoDuplicates(s)}
    /\ keep_small \in BOOLEAN
    /\ call = NoCall
    /\ pre = blut
    /\ ret = RetNone
    /\ handle = {}

\* ---- actions: one per method call ----
Apply(res, c) ==
    /\ Len(res.blut) <= MaxLen
    /\ blut' = res.blut
    /\ ret' = res.ret
    /\ pre' = blut
    /\ call' = c
    /\ UNCHANGED keep_small

DoAddBlock ==
    \E block \in Values :
        LET res == AddBlock(blut, block)
        IN  /\ Apply(res, [op |-> "add_block", a |-> block, b |-> 0, flag |-> FALSE])
            /\ handle' = IF block = None THEN handle
                         ELSE {h \in handle : h[1] # block} \cup {<<block, res.ret.val>>}

DoReplaceBlock ==
    \E current \in Values, replacement \in Values :
        /\ Apply(ReplaceBlock(blut, current, replacement),
                 [op |-> "replace_block", a |-> current, b |-> replacement, flag |-> FALSE])
        /\ handle' = {}

DoRemoveBlock ==
    \E block \in Values :
        /\ Apply(RemoveBlock(blut, block), [op |-> "remove_block", a |-> block, b |-> 0, flag |-> FALSE])
        /\ handle' = {}

DoCount ==
    \E block \in Values, force_count \in BOOLEAN :
        /\ Apply([blut |-> blut, ret |-> RetInt(Count(blut, block, force_count))],
                 [op |-> "count", a |-> block, b |-> 0, flag |-> force_count])
        /\ UNCHANGED handle

DoDelItem ==
    \E index \in (-MaxLen - 1)..MaxLen :
        /\ Apply(DelItem(blut, keep_small, index), [op |-> "delitem", a |-> index, b |-> 0, flag |-> FALSE])
        /\ handle' = {}

DoSetItem ==
    \E index \in (-MaxLen - 1)..MaxLen, value \in Values :
        /\ Apply(SetItem(blut, keep_small, index, value),
                 [op |-> "setitem", a |-> index, b |-> value, flag |-> FALSE])
        /\ handle' = {}

DoAppend ==
    \E block \in Values, force \in BOOLEAN :
        /\ Apply(PyAppend(blut, keep_small, block, force),
                 [op |-> "append", a |-> block, b |-> 0, flag |-> force])
        /\ handle' = {}

\* the palette-centric interface
Next == DoAddBlock \/ DoReplaceBlock \/ DoRemoveBlock \/ DoCount

Spec == Init /\ [][Next]_vars

\* the list-centric interface
NextList == DoAppend \/ DoSetItem \/ DoDelItem

SpecList == Init /\ [][NextList]_vars

\* a palette constructed with keep_small=True and without gaps
InitSmall == Init /\ keep_small /\ ~Has(blut, None)

NextSmall == DoAddBlock \/ DoReplaceBlock \/ DoRemoveBlock \/ DoDelItem

SpecSmall == InitSmall /\ [][NextSmall]_vars

\* ---- properties ----
\* C1: starting from a palette without duplicate blocks, after any sequence of
\* add_block, replace_block and remove_block calls every non-None value occurs
\* at most once in the backing list.
C1_NoDuplicateBlocks == NoDuplicates(blut)

\* a replace_block whose replacement already sat in another slot has run
C1_Witness ==
    /\ call.op = "replace_block"
    /\ call.a # None /\ call.b # None /\ call.a # call.b
    /\ Has(pre, call.a) /\ Has(pre, call.b)

\* C2: add_block(block) returns None and changes nothing for None; returns the
\* index of a present block and changes nothing; otherwise writes the block into
\* the lowest gap and returns that index, or, without a gap, appends it and
\* returns -1.
C2_AddBlockReference ==
    call.op = "add_block" =>
        LET block == call.a
            gaps == {p \in 1..Len(pre) : pre[p] = None}
        IN  IF block = None THEN ret = RetNone /\ blut = pre
            ELSE IF Has(pre, block) THEN
                /\ ret.kind = "int" /\ ret.val \in 0..(Len(pre) - 1)
                /\ pre[ret.val + 1] = block
                /\ blut = pre
            ELSE IF gaps # {} THEN
                \E g \in gaps :
                    /\ \A h \in gaps : g <= h
                    /\ ret = RetInt(g - 1)
                    /\ Len(blut) = Len(pre)
                    /\ blut[g] = block
                    /\ \A p \in 1..Len(pre) : p # g => blut[p] = pre[p]
            ELSE
                /\ ret = RetInt(-1)
                /\ Len(blut) = Len(pre) + 1
                /\ blut[Len(blut)] = block
                /\ \A p \in 1..Len(pre) : blut[p] = pre[p]

\* add_block of an absent block on a palette with two gaps or more has run
C2_Witness ==
    /\ call.op = "add_block"
    /\ call.a # None /\ ~Has(pre, call.a)
    /\ ListCount(pre, None) >= 2
    /\ blut # pre

\* C3: with current present, replace_block(current, replacement) clears
\* current's slot and returns the index of the existing replacement when
\* replacement occurs at another index; otherwise current's slot holds
\* replacement afterwards; every other slot is unchanged.
C3_ReplaceBlockContract ==
    (call.op = "replace_block" /\ Has(pre, call.a)) =>
        LET old == (ListIndex(pre, call.a) + 1)
            elsewhere == {p \in 1..Len(pre) : p # old /\ pre[p] = call.b}
        IN  /\ Len(blut) = Len(pre)
            /\ \A p \in 1..Len(pre) : p # old => blut[p] = pre[p]
            /\ IF elsewhere # {} THEN
                   /\ blut[old] = None
                   /\ ret.kind = "int" /\ ret.val \in 0..(Len(pre) - 1)
                   /\ pre[ret.val + 1] = call.b
               ELSE blut[old] = call.b

\* C4: with current absent, replace_block(current, replacement) does not raise
\* and leaves the palette and the returned value that add_block(replacement)
\* gives on the same starting palette.
C4_AbsentCurrentIsAddBlock ==
    (call.op = "replace_block" /\ ~Has(pre, call.a)) =>
        /\ ret.kind # "raise"
        /\ [blut |-> blut, ret |-> ret] = AddBlock(pre, call.b)

\* replace_block of an absent current with an absent replacement has run
C4_Witness ==
    /\ call.op = "replace_block"
    /\ ~Has(pre, call.a)
    /\ call.b # None /\ ~Has(pre, call.b)
    /\ Has(blut, call.b)

C6_CountIsOccurrences ==
    (call.op = "count" /\ ~call.flag) =>
        ret = RetInt(Cardinality({p \in 1..Len(pre) : pre[p] = call.a}))

\* C7: the index add_block(b) returned identifies b right after the call and
\* after any later add_block calls with other blocks.
C7_AddBlockIndexStable ==
    \A h \in handle : InRange(blut, h[2]) /\ GetItem(blut, h[2]) = h[1]

\* C8: append(block) without force, for a block (not None), leaves the list
\* unchanged when block is present and makes block the new last element when
\* it is absent.
C8_AppendOnlyIfAbsent ==
    (call.op = "append" /\ ~call.flag /\ call.a # None) =>
        IF Has(pre, call.a) THEN blut = pre ELSE blut = Append(pre, call.a)

\* C9: with keep_small False, no duplicates, a valid index i and a non-None v,
\* after palette[i] = v slot i holds v, every other slot that held v holds
\* None, and the remaining slots are unchanged.
C9_SetItemMovesValue ==
    (/\ call.op = "setitem" /\ ~keep_small /\ NoDuplicates(pre)
     /\ InRange(pre, call.a) /\ call.b # None) =>
        /\ Len(blut) = Len(pre)
        /\ \A p \in 1..Len(pre) :
               blut[p] = IF p = Norm(pre, call.a) + 1 THEN call.b
                         ELSE IF pre[p] = call.b THEN None
                         ELSE pre[p]

\* C10: a palette constructed with keep_small True and without gaps holds no
\* None after any sequence of remove_block, replace_block, add_block and
\* del palette[i] calls.
C10_KeepSmallHasNoGaps == keep_small => ~Has(blut, None)

====
